---- MODULE Spec2Model ----
(***************************************************************************)
(* A model of heredity.py: the exact-inference core that enumerates every  *)
(* (have_trait, one_gene, two_genes) triple over the people of a pedigree, *)
(* computes the joint probability of each and folds it into per-person     *)
(* accumulators.                                                           *)
(*                                                                         *)
(* Numbers.  Every probability literal of the program is a multiple of     *)
(* 1/100, and every product the program forms inside one multiplicand is a *)
(* product of two of them, so each multiplicand is an exact multiple of    *)
(* 1/Scale with Scale = 100 * 100.  A probability x is held as the integer *)
(* x * Scale.  joint_p itself (a product of up to two multiplicands per    *)
(* person) does not fit a machine integer, so it is held exactly, in       *)
(* factored form: the sequence of the multiplicands joint_p was multiplied *)
(* by, in the order the statements `joint_p *= ...` ran.                   *)
(*                                                                         *)
(* Names.  A person's name is a positive integer (the row of the CSV file  *)
(* that introduces the person); Python's None is the value None below.     *)
(***************************************************************************)
EXTENDS Integers, Sequences, FiniteSets

\* The largest number of people in a pedigree.
MaxPeople == 3

\* When update and normalize are called on their own: the largest number of
\* people, and the largest mass of an accumulator bucket and of p, in halves.
MaxAccPeople == 2

MaxMass == 1

\* Python's None: a parent that is absent, and the result of a function that
\* falls off its end.  (A trait is held as the text of its Python value:
\* "True", "False" or "None".)
None == 0 - 1

\* Fixed-point unit: the integer n stands for the probability n / Scale.
Scale == 100 * 100

One == Scale

Half == Scale \div 2

\* a * b for two fixed-point numbers (exact for multiples of 1/100).
Mul(a, b) == (a * b) \div Scale

\* The table PROBS.  PROBS.trait[g][t]: t is "True" or "False".
PROBS ==
    [ gene |-> [g \in 0..2 |-> CASE g = 2 -> Scale \div 100
                                 [] g = 1 -> 3 * (Scale \div 100)
                                 [] g = 0 -> 96 * (Scale \div 100)],
      trait |-> [g \in 0..2 |->
                   CASE g = 2 -> [t \in {"True", "False"} |->
                                    IF t = "True" THEN 65 * (Scale \div 100)
                                                  ELSE 35 * (Scale \div 100)]
                     [] g = 1 -> [t \in {"True", "False"} |->
                                    IF t = "True" THEN 56 * (Scale \div 100)
                                                  ELSE 44 * (Scale \div 100)]
                     [] g = 0 -> [t \in {"True", "False"} |->
                                    IF t = "True" THEN Scale \div 100
                                                  ELSE 99 * (Scale \div 100)]],
      mutation |-> Scale \div 100 ]

VARIABLES
    people,         \* the pedigree: name -> [name, mother, father, trait]
    order,          \* the order in which list(names) yields the names
    probabilities,  \* main's accumulators: name -> [gene, trait]
    have_trait,     \* the loop variables of main
    one_gene,
    two_genes,
    ht_i,           \* how many elements each for loop has taken
    og_i,
    tg_i,
    p,              \* the joint probability handed to update
    pc,             \* the statement main is at
    err,            \* the exception that ended the run, or "none"
    evaluated,      \* the triples joint_probability was called with, in order
    skipped,        \* the have_trait sets main skipped at `continue`
    updates,        \* the triples update was called with, in order
    normalized      \* how many times normalize was called

vars == << people, order, probabilities, have_trait, one_gene, two_genes,
           ht_i, og_i, tg_i, p, pc, err, evaluated, skipped, updates, normalized >>

----------------------------------------------------------------------------
(* Helpers of the model *)

Range(s) == { s[i] : i \in 1..Len(s) }

\* The sequences that list every element of S exactly once.
Perms(S) == { s \in [1..Cardinality(S) -> S] : Range(s) = S }

\* The elements of seq that are in S, in seq's order.
Restrict(seq, S) == SelectSeq(seq, LAMBDA x : x \in S)

\* Python's str(bool).
PyBool(b) == IF b THEN "True" ELSE "False"

----------------------------------------------------------------------------
(* powerset *)

\* itertools.combinations(s, r): the r-element subsets of the list s, in the
\* lexicographic order of their positions.
RECURSIVE combinations(_, _)
combinations(s, r) ==
    IF r = 0 THEN << {} >>
    ELSE IF Len(s) < r THEN << >>
    ELSE LET with == combinations(Tail(s), r - 1)
             without == combinations(Tail(s), r)
         IN  [i \in 1..Len(with) |-> {Head(s)} \cup with[i]] \o without

\* chain.from_iterable(combinations(s, r) for r in range(from, len(s) + 1)).
RECURSIVE chain(_, _)
chain(s, from) ==
    IF from > Len(s) THEN << >>
    ELSE combinations(s, from) \o chain(s, from + 1)

\* powerset(s): list(s) yields the elements of s in the order `order` gives them.
powerset(s) == chain(Restrict(order, s), 0)

----------------------------------------------------------------------------
(* joint_probability and its helpers *)

check_parents(ppl, person) ==
    ppl[person].father = None /\ ppl[person].mother = None

gene_prob(person, og, tg, ht) ==
    IF person \in ht
    THEN IF person \in og THEN Mul(PROBS.gene[1], PROBS.trait[1]["True"])
         ELSE IF person \in tg THEN Mul(PROBS.gene[2], PROBS.trait[2]["True"])
         ELSE Mul(PROBS.gene[0], PROBS.trait[0]["True"])
    ELSE IF person \in og THEN Mul(PROBS.gene[1], PROBS.trait[1]["False"])
         ELSE IF person \in tg THEN Mul(PROBS.gene[2], PROBS.trait[2]["False"])
         ELSE Mul(PROBS.gene[0], PROBS.trait[0]["False"])

zero_copies(ppl, parent, person, og, tg) ==
    ppl[person][parent] \notin og /\ ppl[person][parent] \notin tg

\* parents with the test for code 3 written for one order of the parents only.
parents_one_order(ppl, person, og, tg) ==
    IF zero_copies(ppl, "father", person, og, tg)
       /\ zero_copies(ppl, "mother", person, og, tg) THEN 0
    ELSE IF ppl[person].father \in og /\ ppl[person].mother \in og THEN 1
    ELSE IF ppl[person].father \in tg /\ ppl[person].mother \in tg THEN 2
    ELSE IF ppl[person].father \in og /\ ppl[person].mother \in tg THEN 3
    ELSE IF \/ zero_copies(ppl, "father", person, og, tg)
               /\ ppl[person].mother \in og
            \/ zero_copies(ppl, "mother", person, og, tg)
               /\ ppl[person].father \in og THEN 4
    ELSE IF \/ zero_copies(ppl, "father", person, og, tg)
               /\ ppl[person].mother \in tg
            \/ zero_copies(ppl, "mother", person, og, tg)
               /\ ppl[person].father \in tg THEN 5
    ELSE None

parents(ppl, person, og, tg) ==
    IF zero_copies(ppl, "father", person, og, tg)
       /\ zero_copies(ppl, "mother", person, og, tg) THEN 0
    ELSE IF ppl[person].father \in og /\ ppl[person].mother \in og THEN 1
    ELSE IF ppl[person].father \in tg /\ ppl[person].mother \in tg THEN 2
    ELSE IF \/ ppl[person].father \in og /\ ppl[person].mother \in tg
            \/ ppl[person].father \in tg /\ ppl[person].mother \in og THEN 3
    ELSE IF \/ zero_copies(ppl, "father", person, og, tg)
               /\ ppl[person].mother \in og
            \/ zero_copies(ppl, "mother", person, og, tg)
               /\ ppl[person].father \in og THEN 4
    ELSE IF \/ zero_copies(ppl, "father", person, og, tg)
               /\ ppl[person].mother \in tg
            \/ zero_copies(ppl, "mother", person, og, tg)
               /\ ppl[person].father \in tg THEN 5
    ELSE None

\* The gene factor each case block of joint_probability multiplies into
\* joint_p, by the branch the person takes (1: the person is in one_gene,
\* 2: in two_genes, 0: in neither).

\* zero_zero with the one_gene branch counting one of the two ways only.
zero_zero_one_way(branch) ==
    LET m == PROBS.mutation
    IN  CASE branch = 1 -> Mul(One - m, m)
          [] branch = 2 -> Mul(m, m)
          [] branch = 0 -> Mul(One - m, One - m)

\* zero copies in both parents
zero_zero(branch) ==
    LET m == PROBS.mutation
    IN  CASE branch = 1 -> Mul(One - m, m) + Mul(One - m, m)
          [] branch = 2 -> Mul(m, m)
          [] branch = 0 -> Mul(One - m, One - m)

\* one_one with a mutation-weighted factor in the two_genes branch.
one_one_weighted(branch) ==
    CASE branch = 1 -> Mul(Half, Half) + Mul(Half, Half)
      [] branch = 2 -> Mul(Half, One - PROBS.mutation)
      [] branch = 0 -> Mul(Half, Half)

\* one copy for both parents
one_one(branch) ==
    CASE branch = 1 -> Mul(Half, Half) + Mul(Half, Half)
      [] branch = 2 -> Mul(Half, Half)
      [] branch = 0 -> Mul(Half, Half)

\* two copies for both parents
two_two(branch) ==
    LET m == PROBS.mutation
    IN  CASE branch = 1 -> Mul(One - m, m) + Mul(One - m, m)
          [] branch = 2 -> Mul(One - m, One - m)
          [] branch = 0 -> Mul(m, m)

\* one copy for one parent and two copies for the other parent
one_two(branch) ==
    LET m == PROBS.mutation
    IN  CASE branch = 1 -> Mul(Half, m) + Mul(One - m, Half)
          [] branch = 2 -> Mul(Half, One - m)
          [] branch = 0 -> Mul(Half, m)

\* one copy for one parent and zero copies for the other parent
zero_one(branch) ==
    LET m == PROBS.mutation
    IN  CASE branch = 1 -> Mul(Half, m) + Mul(One - m, Half)
          [] branch = 2 -> Mul(Half, m)
          [] branch = 0 -> Mul(One - m, Half)

\* two copies for one parent and zero copies for the other parent.  The
\* one_gene branch is `(1 - m * 1 - m) + m * m`: "*" binds tighter than "-".
zero_two(branch) ==
    LET m == PROBS.mutation
    IN  CASE branch = 1 -> (One - Mul(m, One) - m) + Mul(m, m)
          [] branch = 2 -> Mul(One - m, m)
          [] branch = 0 -> Mul(One - m, m)

\* The gene factor of the case block `if parents(...) == block:`.
gene_factor(block, branch) ==
    CASE block = 0 -> zero_zero(branch)
      [] block = 1 -> one_one(branch)
      [] block = 2 -> two_two(branch)
      [] block = 3 -> one_two(branch)
      [] block = 4 -> zero_one(branch)
      [] block = 5 -> zero_two(branch)

\* The branch a case block takes for a person: the if / elif / else on
\* people[person]['name'].
branch_of(ppl, person, og, tg) ==
    IF ppl[person].name \in og THEN 1
    ELSE IF ppl[person].name \in tg THEN 2
    ELSE 0

\* The multiplicand of the `joint_p *= PROBS["trait"][g][...]` of a branch.
trait_factor(ppl, person, branch, ht) ==
    IF ppl[person].name \in ht THEN PROBS.trait[branch]["True"]
    ELSE PROBS.trait[branch]["False"]

\* One case block `if parents(...) == block:` of joint_probability: the
\* multiplicands it multiplies into joint_p (none when the test fails).
case_block(ppl, person, og, tg, ht, block) ==
    IF parents(ppl, person, og, tg) = block
    THEN LET b == branch_of(ppl, person, og, tg)
         IN  << [person |-> person, kind |-> "gene", block |-> block,
                 value |-> gene_factor(block, b)],
                [person |-> person, kind |-> "trait", block |-> block,
                 value |-> trait_factor(ppl, person, b, ht)] >>
    ELSE << >>

\* The body of `for person in people`: what one person multiplies into joint_p.
person_factors(ppl, person, og, tg, ht) ==
    IF check_parents(ppl, person)
    THEN << [person |-> person, kind |-> "gene_prob", block |-> None,
             value |-> gene_prob(person, og, tg, ht)] >>
    ELSE case_block(ppl, person, og, tg, ht, 0)
         \o case_block(ppl, person, og, tg, ht, 1)
         \o case_block(ppl, person, og, tg, ht, 2)
         \o case_block(ppl, person, og, tg, ht, 3)
         \o case_block(ppl, person, og, tg, ht, 4)
         \o case_block(ppl, person, og, tg, ht, 5)

\* The multiplicands of the people from the i-th on, in the order of the dict.
RECURSIVE joint_from(_, _, _, _, _)
joint_from(ppl, i, og, tg, ht) ==
    IF i \notin DOMAIN ppl THEN << >>
    ELSE person_factors(ppl, i, og, tg, ht) \o joint_from(ppl, i + 1, og, tg, ht)

\* joint_probability(people, one_gene, two_genes, have_trait): joint_p, in
\* factored form.
joint_probability(ppl, og, tg, ht) == joint_from(ppl, 1, og, tg, ht)

----------------------------------------------------------------------------
(* The pedigrees load_data can hand to main *)

Traits == {"True", "False", "None"}

\* A name that is no key of the pedigree.
Stranger == MaxPeople + 1

\* The (father, mother) a well-formed row i may carry: both blank, or both
\* names of earlier rows.
ParentPairs(i) == { <<None, None>> } \cup ((1..(i - 1)) \X (1..(i - 1)))

\* Every (father, mother) a row i may carry, blank fields and names that are
\* no key included.
AnyPairs(i) ==
    ((1..(i - 1)) \cup {None, Stranger}) \X ((1..(i - 1)) \cup {None, Stranger})

RECURSIVE ParentMaps(_)
ParentMaps(n) ==
    IF n = 0 THEN { << >> }
    ELSE { Append(m, pr) : m \in ParentMaps(n - 1), pr \in ParentPairs(n) }

\* The parent maps with exactly one malformed row.
RECURSIVE MalformedMaps(_)
MalformedMaps(n) ==
    IF n = 0 THEN { }
    ELSE { Append(m, pr) : m \in MalformedMaps(n - 1), pr \in ParentPairs(n) }
         \cup { Append(m, pr) : m \in ParentMaps(n - 1),
                                pr \in AnyPairs(n) \ ParentPairs(n) }

\* load_data's dictionary for n rows.
Pedigree(n, par, tr) ==
    [ i \in 1..n |-> [ name |-> i, father |-> par[i][1], mother |-> par[i][2],
                       trait |-> tr[i] ] ]

\* Every person has both parents or none, and parents are keys of the pedigree.
WellFormed(ppl) ==
    \A i \in DOMAIN ppl :
        \/ ppl[i].father = None /\ ppl[i].mother = None
        \/ ppl[i].father \in DOMAIN ppl /\ ppl[i].mother \in DOMAIN ppl

----------------------------------------------------------------------------
(* main *)

\* The accumulators main builds: every bucket 0.
zero_probabilities(ppl) ==
    [ person \in DOMAIN ppl |->
        [ gene |-> [g \in 0..2 |-> 0],
          trait |-> [t \in {"True", "False"} |-> 0] ] ]

names == DOMAIN people

fails_evidence(ppl, ht) ==
    \E person \in DOMAIN ppl :
        /\ ppl[person].trait # "None"
        /\ ppl[person].trait # PyBool(person \in ht)

Init ==
    /\ \E n \in 1..MaxPeople :
         \E par \in ParentMaps(n) \cup MalformedMaps(n) :
           \E tr \in [1..n -> Traits] :
             /\ people = Pedigree(n, par, tr)
             /\ order \in Perms(1..n)
    /\ probabilities = << >>
    /\ have_trait = {} /\ one_gene = {} /\ two_genes = {}
    /\ ht_i = 0 /\ og_i = 0 /\ tg_i = 0
    /\ p = << >>
    /\ pc = "main"
    /\ err = "none"
    /\ evaluated = << >>
    /\ skipped = {}
    /\ updates = << >>
    /\ normalized = 0

\* probabilities = {...}; names = set(people)
Main ==
    /\ pc = "main"
    /\ probabilities' = zero_probabilities(people)
    /\ ht_i' = 0
    /\ pc' = "for_have_trait"
    /\ UNCHANGED << people, order, have_trait, one_gene, two_genes, og_i, tg_i,
                    p, err, evaluated, skipped, updates, normalized >>

\* for have_trait in powerset(names): ... if fails_evidence: continue
ForHaveTrait ==
    /\ pc = "for_have_trait"
    /\ IF ht_i = Len(powerset(names))
       THEN /\ pc' = "normalize"
            /\ UNCHANGED << have_trait, ht_i, og_i, skipped >>
       ELSE LET ht == powerset(names)[ht_i + 1]
            IN  /\ have_trait' = ht
                /\ ht_i' = ht_i + 1
                /\ IF fails_evidence(people, ht)
                   THEN /\ skipped' = skipped \cup {ht}
                        /\ pc' = "for_have_trait"
                        /\ UNCHANGED og_i
                   ELSE /\ og_i' = 0
                        /\ pc' = "for_one_gene"
                        /\ UNCHANGED skipped
    /\ UNCHANGED << people, order, probabilities, one_gene, two_genes, tg_i,
                    p, err, evaluated, updates, normalized >>

\* for one_gene in powerset(names):
ForOneGene ==
    /\ pc = "for_one_gene"
    /\ IF og_i = Len(powerset(names))
       THEN /\ pc' = "for_have_trait"
            /\ UNCHANGED << one_gene, og_i, tg_i >>
       ELSE /\ one_gene' = powerset(names)[og_i + 1]
            /\ og_i' = og_i + 1
            /\ tg_i' = 0
            /\ pc' = "for_two_genes"
    /\ UNCHANGED << people, order, probabilities, have_trait, two_genes, ht_i,
                    p, err, evaluated, skipped, updates, normalized >>

\* for two_genes in powerset(names - one_gene):
ForTwoGenes ==
    /\ pc = "for_two_genes"
    /\ IF tg_i = Len(powerset(names \ one_gene))
       THEN /\ pc' = "for_one_gene"
            /\ UNCHANGED << two_genes, tg_i >>
       ELSE /\ two_genes' = powerset(names \ one_gene)[tg_i + 1]
            /\ tg_i' = tg_i + 1
            /\ pc' = "joint_probability"
    /\ UNCHANGED << people, order, probabilities, have_trait, one_gene, ht_i,
                    og_i, p, err, evaluated, skipped, updates, normalized >>

\* p = joint_probability(people, one_gene, two_genes, have_trait)
JointProbability ==
    /\ pc = "joint_probability"
    /\ p' = joint_probability(people, one_gene, two_genes, have_trait)
    /\ evaluated' = Append(evaluated, [have_trait |-> have_trait,
                             one_gene |-> one_gene, two_genes |-> two_genes])
    /\ pc' = "update"
    /\ UNCHANGED << people, order, probabilities, have_trait, one_gene,
                    two_genes, ht_i, og_i, tg_i, err, skipped, updates,
                    normalized >>

\* update(probabilities, one_gene, two_genes, have_trait, p): the body is
\* `raise NotImplementedError`, which nothing catches.
Update ==
    /\ pc = "update"
    /\ updates' = Append(updates, [have_trait |-> have_trait,
                           one_gene |-> one_gene, two_genes |-> two_genes])
    /\ err' = "NotImplementedError"
    /\ pc' = "raised"
    /\ UNCHANGED << people, order, probabilities, have_trait, one_gene,
                    two_genes, ht_i, og_i, tg_i, p, evaluated, skipped,
                    normalized >>

\* The exception normalize(probs) ends with.  sum(probs.values()) starts from
\* the int 0: with no value the total is 0 and 1.0 / 0 raises
\* ZeroDivisionError; otherwise 0 + (the first value) adds an int and a dict,
\* every value of main's accumulators being a dict, and raises TypeError.
normalize(probs) ==
    IF DOMAIN probs = {} THEN "ZeroDivisionError" ELSE "TypeError"

\* normalize(probabilities): raises at its first statement, before the loop
\* that rescales.
Normalize ==
    /\ pc = "normalize"
    /\ normalized' = normalized + 1
    /\ err' = normalize(probabilities)
    /\ pc' = "raised"
    /\ UNCHANGED << people, order, probabilities, have_trait, one_gene,
                    two_genes, ht_i, og_i, tg_i, p, evaluated, skipped,
                    updates >>

\* A run of main.  Every run ends in Update's exception, so the statements
\* after the loops (normalize, the printing) are never reached: see
\* NormalizeUnreachable.
Next ==
    \/ Main
    \/ ForHaveTrait
    \/ ForOneGene
    \/ ForTwoGenes
    \/ JointProbability
    \/ Update

Spec == Init /\ [][Next]_vars

----------------------------------------------------------------------------
(* joint_probability called on its own, for every triple over a well-formed *)
(* pedigree                                                                 *)

InitJoint ==
    /\ \E n \in 1..MaxPeople :
         \E par \in ParentMaps(n) :
           /\ people = Pedigree(n, par, [i \in 1..n |-> "None"])
           /\ order = [i \in 1..n |-> i]
           /\ have_trait \in SUBSET (1..n)
           /\ one_gene \in SUBSET (1..n)
           /\ two_genes \in SUBSET ((1..n) \ one_gene)
    /\ probabilities = zero_probabilities(people)
    /\ ht_i = 0 /\ og_i = 0 /\ tg_i = 0
    /\ p = << >>
    /\ pc = "joint_probability"
    /\ err = "none"
    /\ evaluated = << >>
    /\ skipped = {}
    /\ updates = << >>
    /\ normalized = 0

NextJoint == JointProbability

SpecJoint == InitJoint /\ [][NextJoint]_vars

----------------------------------------------------------------------------
(* update and normalize called on their own, on accumulators that hold mass *)

\* The masses a bucket, and p, may hold: the multiples of 0.5 up to MaxMass halves.
Mass == { k * Half : k \in 0..MaxMass }

Masses(n) ==
    [ 1..n -> [ gene : [0..2 -> Mass],
                trait : [{"True", "False"} -> Mass] ] ]

InitAcc ==
    /\ \E n \in 1..MaxAccPeople :
         /\ people = Pedigree(n, [i \in 1..n |-> <<None, None>>],
                              [i \in 1..n |-> "None"])
         /\ order = [i \in 1..n |-> i]
         /\ probabilities \in Masses(n)
         /\ \/ /\ pc = "update"
               /\ have_trait \in SUBSET (1..n)
               /\ one_gene \in SUBSET (1..n)
               /\ two_genes \in SUBSET ((1..n) \ one_gene)
               /\ p \in Mass \ {0}
            \/ /\ pc = "normalize"
               /\ have_trait = {} /\ one_gene = {} /\ two_genes = {}
               /\ p = 0
    /\ ht_i = 0 /\ og_i = 0 /\ tg_i = 0
    /\ err = "none"
    /\ evaluated = << >>
    /\ skipped = {}
    /\ updates = << >>
    /\ normalized = 0

NextAcc == Update \/ Normalize

SpecAcc == InitAcc /\ [][NextAcc]_vars

----------------------------------------------------------------------------
(* Vocabulary of the properties *)

\* The gene bucket an assignment (og, tg) gives a name.
Bucket(x, og, tg) == IF x \in tg THEN 2 ELSE IF x \in og THEN 1 ELSE 0

NonFounders(ppl) ==
    { c \in DOMAIN ppl : ~(ppl[c].father = None /\ ppl[c].mother = None) }

\* joint_probability has returned: p holds its result for the current triple.
Returned == evaluated # << >> /\ pc = "update"

\* The positions of p that hold a multiplicand of the given kind for a person.
Entries(person, kind) ==
    { i \in 1..Len(p) : p[i].person = person /\ p[i].kind = kind }

\* The run of main is over.
Terminated == pc \in {"raised", "done"}

\* The have_trait sets joint_probability was called with.
EvaluatedTraits == { evaluated[i].have_trait : i \in 1..Len(evaluated) }

\* have_trait agrees with every known observation.
Agrees(ppl, ht) ==
    \A person \in DOMAIN ppl :
        ppl[person].trait # "None" => (person \in ht <=> ppl[person].trait = "True")

Sum3(f) == f[0] + f[1] + f[2]

\* Every run of main ends in update's exception: normalize is never called.
NormalizeUnreachable == pc # "normalize" /\ normalized = 0

\* What main's loops do before update ends the run: powerset lists every
\* subset exactly once, so the nested loops would draw every disjoint pair
\* (one_gene, two_genes) exactly once; nothing is evaluated or skipped against
\* the evidence; and exactly one triple is evaluated.
EnumerationLemma ==
    /\ LET ps == powerset(names)
       IN  Range(ps) = SUBSET names /\ Len(ps) = Cardinality(Range(ps))
    /\ \A og \in SUBSET names :
         LET ps == powerset(names \ og)
         IN  Range(ps) = SUBSET (names \ og) /\ Len(ps) = Cardinality(Range(ps))
    /\ \A i \in 1..Len(evaluated) : Agrees(people, evaluated[i].have_trait)
    /\ \A ht \in skipped : ~Agrees(people, ht)
    /\ Len(evaluated) <= 1
    /\ Terminated =>
         /\ Len(evaluated) = 1
         /\ evaluated[1].one_gene = {} /\ evaluated[1].two_genes = {}
         /\ err = "NotImplementedError"

----------------------------------------------------------------------------
(* C1 *)

\* C1 (as claimed): after the call normalize(probabilities) on accumulators
\* that hold mass for every person, every person's gene distribution sums to 1
\* and every person's trait distribution sums to 1.
C1_NormalizedSumsToOne ==
    ( /\ normalized > 0
      /\ \A person \in DOMAIN probabilities :
           /\ Sum3(probabilities[person].gene) > 0
           /\ probabilities[person].trait["True"]
                + probabilities[person].trait["False"] > 0 )
    =>
        /\ err = "none"
        /\ \A person \in DOMAIN probabilities :
             /\ Sum3(probabilities[person].gene) = One
             /\ probabilities[person].trait["True"]
                  + probabilities[person].trait["False"] = One

----------------------------------------------------------------------------
(* C2 *)

\* What update is documented to do: add q to one gene bucket and one trait
\* bucket of every person.
Added(probs, og, tg, ht, q) ==
    [ person \in DOMAIN probs |->
        [ gene |-> [g \in 0..2 |->
                      IF g = Bucket(person, og, tg)
                      THEN probs[person].gene[g] + q
                      ELSE probs[person].gene[g]],
          trait |-> [t \in {"True", "False"} |->
                      IF t = PyBool(person \in ht)
                      THEN probs[person].trait[t] + q
                      ELSE probs[person].trait[t]] ] ]

\* C2 (as claimed): a call of update adds p, for every person, to exactly the
\* gene bucket and the trait bucket of the triple, and changes no other bucket.
C2_UpdateAddsP ==
    [][pc = "update" =>
         probabilities' = Added(probabilities, one_gene, two_genes, have_trait, p)]_vars

----------------------------------------------------------------------------
(* C3 *)

\* The probability that a parent with g copies transmits the gene.
Transmit(g) ==
    CASE g = 0 -> PROBS.mutation
      [] g = 1 -> Half
      [] g = 2 -> One - PROBS.mutation

\* The closed form of P(child has k copies | father has f, mother has m).
ClosedForm(f, m, k) ==
    LET tf == Transmit(f)
        tm == Transmit(m)
    IN  CASE k = 2 -> Mul(tf, tm)
          [] k = 0 -> Mul(One - tf, One - tm)
          [] k = 1 -> Mul(tf, One - tm) + Mul(One - tf, tm)

\* C3 (as claimed): for every non-founder the gene factor multiplied into the
\* joint probability is the closed form of its parents' buckets and its own,
\* and the factors of the three child buckets sum to 1.
C3_GeneFactorIsClosedForm ==
    Returned =>
        \A c \in NonFounders(people) :
            LET f == Bucket(people[c].father, one_gene, two_genes)
                m == Bucket(people[c].mother, one_gene, two_genes)
                block == parents(people, c, one_gene, two_genes)
            IN  /\ Entries(c, "gene") # {}
                /\ \A i \in Entries(c, "gene") :
                     p[i].value = ClosedForm(f, m, Bucket(c, one_gene, two_genes))
                /\ gene_factor(block, 0) + gene_factor(block, 1)
                     + gene_factor(block, 2) = One

----------------------------------------------------------------------------
(* C4 *)

\* C4: for a child of two parents with 0 copies, the gene factor is
\* m * m = 0.0001 (child in two_genes), (1 - m) * (1 - m) = 0.9801 (child with
\* 0 copies) and 2 * m * (1 - m) = 0.0198 (child in one_gene); the three sum to 1.
C4_ZeroCopyParents ==
    LET m == PROBS.mutation
        expected == [k \in 0..2 |-> CASE k = 2 -> Mul(m, m)
                                      [] k = 0 -> Mul(One - m, One - m)
                                      [] k = 1 -> 2 * Mul(m, One - m)]
    IN  /\ expected[2] = Scale \div 10000
        /\ expected[0] = 9801 * (Scale \div 10000)
        /\ expected[1] = 198 * (Scale \div 10000)
        /\ Sum3(expected) = One
        /\ Returned =>
             \A c \in NonFounders(people) :
                 ( /\ Bucket(people[c].father, one_gene, two_genes) = 0
                   /\ Bucket(people[c].mother, one_gene, two_genes) = 0 )
                 => /\ Cardinality(Entries(c, "gene")) = 1
                    /\ \A i \in Entries(c, "gene") :
                         p[i].value = expected[Bucket(c, one_gene, two_genes)]

\* A child in one_gene whose parents both have 0 copies has been given its factor.
C4_Witness ==
    /\ Returned
    /\ \E c \in NonFounders(people) :
         /\ Bucket(people[c].father, one_gene, two_genes) = 0
         /\ Bucket(people[c].mother, one_gene, two_genes) = 0
         /\ people[c].father # people[c].mother
         /\ c \in one_gene
         /\ Entries(c, "gene") # {}

----------------------------------------------------------------------------
(* C5 *)

\* C5: for a non-founder whose father and mother are both in one_gene, the
\* gene factor is 0.25 (child in two_genes), 0.25 (child with 0 copies) and
\* 0.5 (child in one_gene), whatever the mutation probability.
C5_OneCopyParents ==
    Returned =>
        \A c \in NonFounders(people) :
            (people[c].father \in one_gene /\ people[c].mother \in one_gene)
            => /\ Cardinality(Entries(c, "gene")) = 1
               /\ \A i \in Entries(c, "gene") :
                    p[i].value = CASE Bucket(c, one_gene, two_genes) = 2 -> Scale \div 4
                                   [] Bucket(c, one_gene, two_genes) = 0 -> Scale \div 4
                                   [] Bucket(c, one_gene, two_genes) = 1 -> Scale \div 2

\* A child in two_genes whose two distinct parents are in one_gene has been
\* given its factor.
C5_Witness ==
    /\ Returned
    /\ \E c \in NonFounders(people) :
         /\ people[c].father \in one_gene
         /\ people[c].mother \in one_gene
         /\ people[c].father # people[c].mother
         /\ c \in two_genes
         /\ Entries(c, "gene") # {}

----------------------------------------------------------------------------
(* C6 *)

\* C6 (as claimed): for a well-formed pedigree, joint_probability and update
\* are only called with a have_trait that agrees with the evidence, no
\* conflicting subset is evaluated, and by the end of the run every agreeing
\* subset was evaluated.
C6_EvidenceFilter ==
    WellFormed(people) =>
    /\ \A i \in 1..Len(evaluated) : Agrees(people, evaluated[i].have_trait)
    /\ \A i \in 1..Len(updates) : Agrees(people, updates[i].have_trait)
    /\ \A ht \in skipped : ~Agrees(people, ht)
    /\ Terminated =>
         \A ht \in SUBSET names :
             IF Agrees(people, ht) THEN ht \in EvaluatedTraits
                                   ELSE ht \notin EvaluatedTraits

----------------------------------------------------------------------------
(* C7 *)

\* C7 (as claimed): for a well-formed pedigree, the pairs the nested loops
\* visit have one_gene and two_genes disjoint, none is visited twice, and by
\* the end of the run every assignment of a gene count to every person was
\* visited for each have_trait evaluated (3^n pairs for n people).
C7_EveryAssignmentOnce ==
    WellFormed(people) =>
    /\ \A i \in 1..Len(evaluated) :
         evaluated[i].one_gene \cap evaluated[i].two_genes = {}
    /\ \A i, j \in 1..Len(evaluated) : evaluated[i] = evaluated[j] => i = j
    /\ Terminated =>
         \A ht \in EvaluatedTraits :
             \A og \in SUBSET names :
                 \A tg \in SUBSET (names \ og) :
                     [have_trait |-> ht, one_gene |-> og, two_genes |-> tg]
                         \in Range(evaluated)

----------------------------------------------------------------------------
(* C8 *)

\* C8 (as claimed): for a malformed pedigree no joint probability is ever
\* computed, and the run ends in a structural-validation error.
C8_MalformedFailsFast ==
    ~WellFormed(people) =>
        /\ evaluated = << >>
        /\ Terminated => err = "ValidationError"

----------------------------------------------------------------------------
(* C9 *)

\* C9 (as claimed): for a well-formed pedigree the run never raises; the
\* accumulators are zero until the first update; normalize is called at most
\* once, only after every evidence-consistent triple was folded in by update;
\* nothing is accumulated after normalize; and a run that is over is at the
\* reporting step or past it.
C9_RunsToCompletion ==
    WellFormed(people) =>
        /\ err = "none"
        /\ pc # "raised"
        /\ (pc # "main" /\ updates = << >>) => probabilities = zero_probabilities(people)
        /\ normalized <= 1
        /\ normalized = 1 =>
             \A ht \in SUBSET names :
                 Agrees(people, ht) =>
                     \A og \in SUBSET names :
                         \A tg \in SUBSET (names \ og) :
                             [have_trait |-> ht, one_gene |-> og, two_genes |-> tg]
                                 \in Range(updates)

----------------------------------------------------------------------------
(* C10 *)

\* The code parents() is to return for the unordered pair of the parents' buckets.
PairCode(a, b) ==
    CASE {a, b} = {0} -> 0
      [] {a, b} = {1} -> 1
      [] {a, b} = {2} -> 2
      [] {a, b} = {1, 2} -> 3
      [] {a, b} = {0, 1} -> 4
      [] {a, b} = {0, 2} -> 5

\* The pedigree with the father and the mother of every person exchanged.
Swapped(ppl) ==
    [ i \in DOMAIN ppl |->
        [ppl[i] EXCEPT !.father = ppl[i].mother, !.mother = ppl[i].father] ]

\* C10: for every non-founder parents() returns a code in 0..5 that depends
\* only on the unordered pair of the parents' buckets; exactly one case block
\* fires, so the person contributes exactly one gene factor and one trait
\* factor (a founder: the one product gene_prob returns); and exchanging
\* father and mother leaves the joint probability unchanged.
C10_OneBlockPerPerson ==
    Returned =>
        /\ \A c \in NonFounders(people) :
             /\ parents(people, c, one_gene, two_genes) \in 0..5
             /\ parents(people, c, one_gene, two_genes)
                  = PairCode(Bucket(people[c].father, one_gene, two_genes),
                             Bucket(people[c].mother, one_gene, two_genes))
             /\ Cardinality(Entries(c, "gene")) = 1
             /\ Cardinality(Entries(c, "trait")) = 1
             /\ Entries(c, "gene_prob") = {}
             /\ \A i \in Entries(c, "gene") \cup Entries(c, "trait") :
                  p[i].block = parents(people, c, one_gene, two_genes)
        /\ \A f \in DOMAIN people \ NonFounders(people) :
             /\ Cardinality(Entries(f, "gene_prob")) = 1
             /\ Entries(f, "gene") = {} /\ Entries(f, "trait") = {}
        /\ p = joint_probability(Swapped(people), one_gene, two_genes, have_trait)

\* A child whose father has 2 copies and whose mother has 1 has been given its
\* factors.
C10_Witness ==
    /\ Returned
    /\ \E c \in NonFounders(people) :
         /\ people[c].father \in two_genes
         /\ people[c].mother \in one_gene
         /\ Entries(c, "gene") # {}

====
